---- MODULE Spec2Model ----
(***************************************************************************)
(* Model of src/Client.py: the batch loop of main, the identity extraction *)
(* of parse_names and parse_locations, the lookup and classification of    *)
(* match, and the report building of patch with remove_missing.            *)
(*                                                                         *)
(* Python values are tagged records: None, str (a sequence of Unicode code *)
(* points), bytes (a sequence of byte values), int, list and dict (a       *)
(* function from key names to values).  Text is kept as code points so     *)
(* that str.split, str.upper, str.lower and str.encode('latin-1') are      *)
(* computed, not assumed.                                                  *)
(*                                                                         *)
(* Not modelled: exceptions raised by the requests library itself and by   *)
(* the file system; non-string name and state members of a Person.         *)
(***************************************************************************)
EXTENDS Integers, Sequences, FiniteSets, TLC

(***************************************************************************)
(* Bounds of the model.                                                    *)
(***************************************************************************)
\* largest number of pages one run fetches successfully
MaxPages == 2
\* largest number of persons on one page
MaxPerPage == 2
\* largest row count c.execute reports
MaxRows == 2
\* the upper bound of a plausible human age that spec.md section 4.3 speaks of
PlausibleAge == 120

(***************************************************************************)
(* Python values.                                                          *)
(***************************************************************************)
NoneV == [t |-> "none"]

Str(s) == [t |-> "str", v |-> s]

Bytes(s) == [t |-> "bytes", v |-> s]

IntV(n) == [t |-> "int", v |-> n]

List(s) == [t |-> "list", v |-> s]

Dict(f) == [t |-> "dict", v |-> f]

EmptyDict == Dict([k \in {} |-> NoneV])

IsDict(x) == x.t = "dict"

\* bool(x): None, '', b'', 0, [] and {} are false, everything else is true
Truthy(x) ==
  CASE x.t = "none" -> FALSE
    [] x.t = "str" -> Len(x.v) > 0
    [] x.t = "bytes" -> Len(x.v) > 0
    [] x.t = "int" -> x.v # 0
    [] x.t = "list" -> Len(x.v) > 0
    [] x.t = "dict" -> DOMAIN x.v # {}

\* d.get(k) of a dict value d
Get(d, k) == IF k \in DOMAIN d.v THEN d.v[k] ELSE NoneV

\* k in d
HasKey(d, k) == k \in DOMAIN d.v

(***************************************************************************)
(* Text: str.split(), str.upper(), str.lower(), str.encode('latin-1').     *)
(***************************************************************************)
\* the characters str.split() treats as separators
IsSpace(ch) ==
  \/ ch \in 9..13
  \/ ch \in 28..32
  \/ ch \in {133, 160, 5760, 8232, 8233, 8239, 8287, 12288}
  \/ ch \in 8192..8202

RECURSIVE SplitAcc(_, _, _)
SplitAcc(s, cur, acc) ==
  IF s = <<>>
  THEN IF cur = <<>> THEN acc ELSE Append(acc, cur)
  ELSE IF IsSpace(Head(s))
       THEN SplitAcc(Tail(s), <<>>, IF cur = <<>> THEN acc ELSE Append(acc, cur))
       ELSE SplitAcc(Tail(s), Append(cur, Head(s)), acc)

\* s.split(): the maximal runs of non-whitespace characters of s, in order
Split(s) == SplitAcc(s, <<>>, <<>>)

\* str.upper() of the characters whose upper case is one other character:
\* <<first, last, step, offset>> maps every step-th code point of first..last
\* to the code point offset further on
UpperRuns ==
  <<
    <<97,122,1,-32>>, <<181,181,1,743>>, <<224,246,1,-32>>, <<248,254,1,-32>>,
    <<255,255,1,121>>, <<257,303,2,-1>>, <<305,305,1,-232>>, <<307,311,2,-1>>,
    <<314,328,2,-1>>, <<331,375,2,-1>>, <<378,382,2,-1>>, <<383,383,1,-300>>,
    <<384,384,1,195>>, <<387,389,2,-1>>, <<392,392,1,-1>>, <<396,396,1,-1>>,
    <<402,402,1,-1>>, <<405,405,1,97>>, <<409,409,1,-1>>, <<410,410,1,163>>,
    <<414,414,1,130>>, <<417,421,2,-1>>, <<424,424,1,-1>>, <<429,429,1,-1>>,
    <<432,432,1,-1>>, <<436,438,2,-1>>, <<441,441,1,-1>>, <<445,445,1,-1>>,
    <<447,447,1,56>>, <<453,453,1,-1>>, <<454,454,1,-2>>, <<456,456,1,-1>>,
    <<457,457,1,-2>>, <<459,459,1,-1>>, <<460,460,1,-2>>, <<462,476,2,-1>>,
    <<477,477,1,-79>>, <<479,495,2,-1>>, <<498,498,1,-1>>, <<499,499,1,-2>>,
    <<501,501,1,-1>>, <<505,543,2,-1>>, <<547,563,2,-1>>, <<572,572,1,-1>>,
    <<575,576,1,10815>>, <<578,578,1,-1>>, <<583,591,2,-1>>, <<592,592,1,10783>>,
    <<593,593,1,10780>>, <<594,594,1,10782>>, <<595,595,1,-210>>, <<596,596,1,-206>>,
    <<598,599,1,-205>>, <<601,601,1,-202>>, <<603,603,1,-203>>, <<604,604,1,42319>>,
    <<608,608,1,-205>>, <<609,609,1,42315>>, <<611,611,1,-207>>, <<613,613,1,42280>>,
    <<614,614,1,42308>>, <<616,616,1,-209>>, <<617,617,1,-211>>, <<618,618,1,42308>>,
    <<619,619,1,10743>>, <<620,620,1,42305>>, <<623,623,1,-211>>, <<625,625,1,10749>>,
    <<626,626,1,-213>>, <<629,629,1,-214>>, <<637,637,1,10727>>, <<640,640,1,-218>>,
    <<642,642,1,42307>>, <<643,643,1,-218>>, <<647,647,1,42282>>, <<648,648,1,-218>>,
    <<649,649,1,-69>>, <<650,651,1,-217>>, <<652,652,1,-71>>, <<658,658,1,-219>>,
    <<669,669,1,42261>>, <<670,670,1,42258>>, <<837,837,1,84>>, <<881,883,2,-1>>,
    <<887,887,1,-1>>, <<891,893,1,130>>, <<940,940,1,-38>>, <<941,943,1,-37>>,
    <<945,961,1,-32>>, <<962,962,1,-31>>, <<963,971,1,-32>>, <<972,972,1,-64>>,
    <<973,974,1,-63>>, <<976,976,1,-62>>, <<977,977,1,-57>>, <<981,981,1,-47>>,
    <<982,982,1,-54>>, <<983,983,1,-8>>, <<985,1007,2,-1>>, <<1008,1008,1,-86>>,
    <<1009,1009,1,-80>>, <<1010,1010,1,7>>, <<1011,1011,1,-116>>, <<1013,1013,1,-96>>,
    <<1016,1016,1,-1>>, <<1019,1019,1,-1>>, <<1072,1103,1,-32>>, <<1104,1119,1,-80>>,
    <<1121,1153,2,-1>>, <<1163,1215,2,-1>>, <<1218,1230,2,-1>>, <<1231,1231,1,-15>>,
    <<1233,1327,2,-1>>, <<1377,1414,1,-48>>, <<4304,4346,1,3008>>, <<4349,4351,1,3008>>,
    <<5112,5117,1,-8>>, <<7296,7296,1,-6254>>, <<7297,7297,1,-6253>>, <<7298,7298,1,-6244>>,
    <<7299,7300,1,-6242>>, <<7301,7301,1,-6243>>, <<7302,7302,1,-6236>>, <<7303,7303,1,-6181>>,
    <<7304,7304,1,35266>>, <<7545,7545,1,35332>>, <<7549,7549,1,3814>>, <<7566,7566,1,35384>>,
    <<7681,7829,2,-1>>, <<7835,7835,1,-59>>, <<7841,7935,2,-1>>, <<7936,7943,1,8>>,
    <<7952,7957,1,8>>, <<7968,7975,1,8>>, <<7984,7991,1,8>>, <<8000,8005,1,8>>,
    <<8017,8023,2,8>>, <<8032,8039,1,8>>, <<8048,8049,1,74>>, <<8050,8053,1,86>>,
    <<8054,8055,1,100>>, <<8056,8057,1,128>>, <<8058,8059,1,112>>, <<8060,8061,1,126>>,
    <<8112,8113,1,8>>, <<8126,8126,1,-7205>>, <<8144,8145,1,8>>, <<8160,8161,1,8>>,
    <<8165,8165,1,7>>, <<8526,8526,1,-28>>, <<8560,8575,1,-16>>, <<8580,8580,1,-1>>,
    <<9424,9449,1,-26>>, <<11312,11359,1,-48>>, <<11361,11361,1,-1>>, <<11365,11365,1,-10795>>,
    <<11366,11366,1,-10792>>, <<11368,11372,2,-1>>, <<11379,11379,1,-1>>, <<11382,11382,1,-1>>,
    <<11393,11491,2,-1>>, <<11500,11502,2,-1>>, <<11507,11507,1,-1>>, <<11520,11557,1,-7264>>,
    <<11559,11559,1,-7264>>, <<11565,11565,1,-7264>>, <<42561,42605,2,-1>>, <<42625,42651,2,-1>>,
    <<42787,42799,2,-1>>, <<42803,42863,2,-1>>, <<42874,42876,2,-1>>, <<42879,42887,2,-1>>,
    <<42892,42892,1,-1>>, <<42897,42899,2,-1>>, <<42900,42900,1,48>>, <<42903,42921,2,-1>>,
    <<42933,42947,2,-1>>, <<42952,42954,2,-1>>, <<42961,42961,1,-1>>, <<42967,42969,2,-1>>,
    <<42998,42998,1,-1>>, <<43859,43859,1,-928>>, <<43888,43967,1,-38864>>, <<65345,65370,1,-32>>,
    <<66600,66639,1,-40>>, <<66776,66811,1,-40>>, <<66967,66977,1,-39>>, <<66979,66993,1,-39>>,
    <<66995,67001,1,-39>>, <<67003,67004,1,-39>>, <<68800,68850,1,-64>>, <<71872,71903,1,-32>>,
    <<93792,93823,1,-32>>, <<125218,125251,1,-34>>
  >>

\* str.upper() of the characters whose upper case is several characters:
\* <<code point, upper case>>
UpperSpecials ==
  <<
    <<223,<<83,83>>>>, <<329,<<700,78>>>>, <<496,<<74,780>>>>,
    <<912,<<921,776,769>>>>, <<944,<<933,776,769>>>>, <<1415,<<1333,1362>>>>,
    <<7830,<<72,817>>>>, <<7831,<<84,776>>>>, <<7832,<<87,778>>>>,
    <<7833,<<89,778>>>>, <<7834,<<65,702>>>>, <<8016,<<933,787>>>>,
    <<8018,<<933,787,768>>>>, <<8020,<<933,787,769>>>>, <<8022,<<933,787,834>>>>,
    <<8064,<<7944,921>>>>, <<8065,<<7945,921>>>>, <<8066,<<7946,921>>>>,
    <<8067,<<7947,921>>>>, <<8068,<<7948,921>>>>, <<8069,<<7949,921>>>>,
    <<8070,<<7950,921>>>>, <<8071,<<7951,921>>>>, <<8072,<<7944,921>>>>,
    <<8073,<<7945,921>>>>, <<8074,<<7946,921>>>>, <<8075,<<7947,921>>>>,
    <<8076,<<7948,921>>>>, <<8077,<<7949,921>>>>, <<8078,<<7950,921>>>>,
    <<8079,<<7951,921>>>>, <<8080,<<7976,921>>>>, <<8081,<<7977,921>>>>,
    <<8082,<<7978,921>>>>, <<8083,<<7979,921>>>>, <<8084,<<7980,921>>>>,
    <<8085,<<7981,921>>>>, <<8086,<<7982,921>>>>, <<8087,<<7983,921>>>>,
    <<8088,<<7976,921>>>>, <<8089,<<7977,921>>>>, <<8090,<<7978,921>>>>,
    <<8091,<<7979,921>>>>, <<8092,<<7980,921>>>>, <<8093,<<7981,921>>>>,
    <<8094,<<7982,921>>>>, <<8095,<<7983,921>>>>, <<8096,<<8040,921>>>>,
    <<8097,<<8041,921>>>>, <<8098,<<8042,921>>>>, <<8099,<<8043,921>>>>,
    <<8100,<<8044,921>>>>, <<8101,<<8045,921>>>>, <<8102,<<8046,921>>>>,
    <<8103,<<8047,921>>>>, <<8104,<<8040,921>>>>, <<8105,<<8041,921>>>>,
    <<8106,<<8042,921>>>>, <<8107,<<8043,921>>>>, <<8108,<<8044,921>>>>,
    <<8109,<<8045,921>>>>, <<8110,<<8046,921>>>>, <<8111,<<8047,921>>>>,
    <<8114,<<8122,921>>>>, <<8115,<<913,921>>>>, <<8116,<<902,921>>>>,
    <<8118,<<913,834>>>>, <<8119,<<913,834,921>>>>, <<8124,<<913,921>>>>,
    <<8130,<<8138,921>>>>, <<8131,<<919,921>>>>, <<8132,<<905,921>>>>,
    <<8134,<<919,834>>>>, <<8135,<<919,834,921>>>>, <<8140,<<919,921>>>>,
    <<8146,<<921,776,768>>>>, <<8147,<<921,776,769>>>>, <<8150,<<921,834>>>>,
    <<8151,<<921,776,834>>>>, <<8162,<<933,776,768>>>>, <<8163,<<933,776,769>>>>,
    <<8164,<<929,787>>>>, <<8166,<<933,834>>>>, <<8167,<<933,776,834>>>>,
    <<8178,<<8186,921>>>>, <<8179,<<937,921>>>>, <<8180,<<911,921>>>>,
    <<8182,<<937,834>>>>, <<8183,<<937,834,921>>>>, <<8188,<<937,921>>>>,
    <<64256,<<70,70>>>>, <<64257,<<70,73>>>>, <<64258,<<70,76>>>>,
    <<64259,<<70,70,73>>>>, <<64260,<<70,70,76>>>>, <<64261,<<83,84>>>>,
    <<64262,<<83,84>>>>, <<64275,<<1348,1350>>>>, <<64276,<<1348,1333>>>>,
    <<64277,<<1348,1339>>>>, <<64278,<<1358,1350>>>>, <<64279,<<1348,1341>>>>
  >>

InRun(r, ch) == ch >= r[1] /\ ch <= r[2] /\ (ch - r[1]) % r[3] = 0

\* str.upper() of one character, for every code point
UpperChar(ch) ==
  IF \E i \in DOMAIN UpperSpecials : UpperSpecials[i][1] = ch
  THEN UpperSpecials[CHOOSE i \in DOMAIN UpperSpecials : UpperSpecials[i][1] = ch][2]
  ELSE IF \E i \in DOMAIN UpperRuns : InRun(UpperRuns[i], ch)
  THEN <<ch + UpperRuns[CHOOSE i \in DOMAIN UpperRuns : InRun(UpperRuns[i], ch)][4]>>
  ELSE <<ch>>

RECURSIVE Upper(_)
Upper(s) == IF s = <<>> THEN <<>> ELSE UpperChar(Head(s)) \o Upper(Tail(s))

\* str.lower() of one character of a member of `states`, the only text line
\* 150 lower-cases: the code points 0..127
LowerChar(ch) == IF ch \in 65..90 THEN ch + 32 ELSE ch

Lower(s) == [i \in 1..Len(s) |-> LowerChar(s[i])]

\* s.encode('latin-1') succeeds iff every code point is below 256
Latin1Encodable(s) == \A i \in 1..Len(s) : s[i] < 256

\* s.encode('latin-1'): one byte per character, the byte being the code point
EncodeLatin1(s) == Bytes([i \in 1..Len(s) |-> s[i] % 256])

(***************************************************************************)
(* The list `states` of src/Client.py, lines 41-45.                        *)
(***************************************************************************)
states ==
  {   <<65,76>>, <<65,75>>, <<65,90>>, <<65,82>>, <<67,65>>, <<67,79>>,
      <<67,84>>, <<68,69>>, <<68,67>>, <<70,76>>, <<71,65>>, <<72,73>>,
      <<73,68>>, <<73,76>>, <<73,78>>, <<73,65>>, <<75,83>>, <<75,89>>,
      <<76,65>>, <<77,69>>, <<77,68>>, <<77,65>>, <<77,73>>, <<77,78>>,
      <<77,83>>, <<77,79>>, <<77,84>>, <<78,69>>, <<78,86>>, <<78,72>>,
      <<78,74>>, <<78,77>>, <<78,89>>, <<78,67>>, <<78,68>>, <<79,72>>,
      <<79,75>>, <<79,82>>, <<80,65>>, <<82,73>>, <<83,67>>, <<83,68>>,
      <<84,78>>, <<84,88>>, <<85,84>>, <<86,84>>, <<86,65>>, <<87,65>>,
      <<87,86>>, <<87,73>>, <<87,89>> }

\* `state not in states` is false (line 119)
StateAllowed_Unchecked(state) == TRUE

StateAllowed(state) == state \in states

(***************************************************************************)
(* Exceptions.  An uncaught exception is recorded with its type, the       *)
(* source line that raises it and the function that line belongs to.       *)
(***************************************************************************)
NoExc == [type |-> "none", line |-> 0, func |-> "none"]

Raise(type, line, func) == [type |-> type, line |-> line, func |-> func]

(***************************************************************************)
(* parse_names, lines 59-92.  person.name and person.names hold what       *)
(* person.get('name') and person.get('names') return.                      *)
(***************************************************************************)
\* all(i.values()) of one alternate name candidate (line 82)
AllValues(i) == \A k \in DOMAIN i.v : Truthy(i.v[k])

\* the negation of `len(v) != 1` (line 83)
UniqueCandidate(v) == Len(v) = 1

\* the target `lastname` of the starred unpacking (line 80)
LastToken_Second(toks) == toks[2]

LastToken(toks) == toks[Len(toks)]

\* lines 89-92: both names encoded, or two Nones
EncodePair(firstname, lastname) ==
  IF Latin1Encodable(firstname) /\ Latin1Encodable(lastname)
  THEN [exc |-> NoExc, firstname |-> EncodeLatin1(firstname),
        lastname |-> EncodeLatin1(lastname)]
  ELSE [exc |-> NoExc, firstname |-> NoneV, lastname |-> NoneV]

NamesUnresolved == [exc |-> NoExc, firstname |-> NoneV, lastname |-> NoneV]

NamesRaise(type, line) ==
  [exc |-> Raise(type, line, "parse_names"), firstname |-> NoneV, lastname |-> NoneV]

ParseNames(person) ==
  IF Truthy(person.name)
  THEN LET toks == Split(person.name.v)
       IN IF Len(toks) < 2
          THEN NamesRaise("ValueError", 80)
          ELSE EncodePair(toks[1], LastToken(toks))
  ELSE IF Truthy(person.names)
  THEN LET v == SelectSeq(person.names.v, AllValues)
       IN IF ~UniqueCandidate(v)
          THEN NamesUnresolved
          ELSE IF ~HasKey(v[1], "personal") \/ ~HasKey(v[1], "family")
               THEN NamesRaise("KeyError", 85)
               ELSE EncodePair(v[1].v["personal"].v, v[1].v["family"].v)
  ELSE NamesUnresolved

(***************************************************************************)
(* parse_locations, lines 95-121.  person.location and person.locations    *)
(* hold what person.get('location') and person.get('locations') return.    *)
(***************************************************************************)
LocationAbsent == [exc |-> NoExc, state |-> NoneV]

LocationRaise(type, line) ==
  [exc |-> Raise(type, line, "parse_locations"), state |-> NoneV]

\* lines 119-121
CheckedState(state) ==
  IF ~StateAllowed(state) THEN LocationAbsent
  ELSE [exc |-> NoExc, state |-> Str(state)]

ParseLocations(person) ==
  IF person.location.t = "none"
  THEN LocationRaise("AttributeError", 109)
  ELSE IF Truthy(Get(person.location, "state"))
  THEN CheckedState(Upper(Get(person.location, "state").v))
  ELSE IF Truthy(person.locations)
  THEN LET ls == person.locations.v
       IN IF \E n \in 1..Len(ls) : ~HasKey(ls[n], "state")
          THEN LocationRaise("KeyError", 112)
          ELSE LET v == {Upper(ls[n].v["state"].v) :
                           n \in {m \in 1..Len(ls) : Truthy(ls[m].v["state"])}}
               IN IF Cardinality(v) # 1
                  THEN LocationAbsent
                  ELSE CheckedState(CHOOSE x \in v : TRUE)
  ELSE LocationAbsent

(***************************************************************************)
(* match after the two parsers, lines 136-175.                             *)
(***************************************************************************)
S_found == Str(<<102,111,117,110,100>>)

S_ambiguous == Str(<<97,109,98,105,103,117,111,117,115>>)

S_missing == Str(<<109,105,115,115,105,110,103>>)

S_failed == Str(<<102,97,105,108,101,100>>)

\* the tuple of lines 137 and 158
FailedResult ==
  [status |-> S_failed, _id |-> NoneV, name |-> NoneV, gender |-> NoneV,
   age |-> NoneV, city |-> NoneV, state |-> NoneV, findincome |-> NoneV]

\* '_indiv_raw', the suffix of the table name (line 148)
TableSuffix == <<95,105,110,100,105,118,95,114,97,119>>

\* the table of the FROM clause and the arguments of the WHERE clause
QueryFor(firstname, lastname, state) ==
  [table |-> Lower(state.v) \o TableSuffix, args |-> <<firstname, lastname>>]

\* lines 163-173: the number of result rows as a status
StatusOf_AnyRowFound(n) ==
  IF n = 0 THEN S_missing ELSE IF n >= 1 THEN S_found ELSE S_failed

StatusOf(n) ==
  IF n = 0 THEN S_missing
  ELSE IF n = 1 THEN S_found
  ELSE IF n > 1 THEN S_ambiguous
  ELSE S_failed

\* `int(x) if x else None` (lines 168-169)
IntOrNone(x) == IF Truthy(x) THEN IntV(x.v) ELSE NoneV

\* lines 160-175 for a lookup that reported n rows, row being c.fetchone()
ResultOf(n, row) ==
  IF StatusOf(n) = S_found
  THEN [status |-> S_found, _id |-> row._id, name |-> row.name,
        gender |-> row.gender, age |-> IntOrNone(row.age), city |-> row.city,
        state |-> row.state, findincome |-> IntOrNone(row.findincome)]
  ELSE [FailedResult EXCEPT !.status = StatusOf(n)]

(***************************************************************************)
(* remove_missing, lines 48-56, and patch, lines 178-220.                  *)
(***************************************************************************)
\* d is the mapping of a dict: the false values go first, then each value
\* that is a dict and was kept is cleaned in place
RECURSIVE remove_missing(_)
remove_missing(d) ==
  LET kept == {k \in DOMAIN d : Truthy(d[k])}
  IN [k \in kept |-> IF IsDict(d[k]) THEN Dict(remove_missing(d[k].v)) ELSE d[k]]

\* the negation of line 193
ValidStatus_AnyText(status) == Truthy(status)

ValidStatus(status) == status \in {S_found, S_ambiguous, S_missing, S_failed}

\* the dict of lines 196-214
Payload(data) ==
  Dict([person |-> Dict(
     [location |-> Dict([city |-> data.city, state |-> data.state]),
      gender |-> data.gender,
      age |-> Dict([maximum |-> data.age, minimum |-> data.age]),
      data |-> Dict([income |-> data.findincome]),
      external_id |-> data._id,
      name |-> data.name,
      status |-> data.status])])

\* line 215: the object whose JSON text is the body of the PATCH request
PatchBody(data) == Dict(remove_missing(Payload(data).v))

(***************************************************************************)
(* Inputs: the Person objects the API serves, the rows the database holds, *)
(* the links of a page.                                                    *)
(***************************************************************************)
N_JD == Str(<<74,32,68>>)

C_JD == Dict([personal |-> Str(<<74>>), family |-> Str(<<68>>)])

C_QD == Dict([personal |-> Str(<<81>>), family |-> Str(<<68>>)])

C_JEmpty == Dict([personal |-> Str(<<74>>), family |-> Str(<<>>)])

C_JOnly == Dict([personal |-> Str(<<74>>)])

C_NonLatin == Dict([personal |-> Str(<<74>>), family |-> Str(<<321>>)])

\* <<person['name'], person['names']>>, None standing for an absent member.
\* Primary names: 'J D', 'J', ' ', 'J Q D', U+0100 + ' D',
\* 'J ' + U+0100 + ' D', ' J<TAB>D ', e-acute + ' D', ''.
\* Alternates: none, one full, one full and one partial, two full, one
\* partial, one without 'family', one outside Latin-1.
NameInputs ==
  { <<N_JD, NoneV>>,
    <<Str(<<74>>), NoneV>>,
    <<Str(<<32>>), NoneV>>,
    <<Str(<<74,32,81,32,68>>), NoneV>>,
    <<Str(<<256,32,68>>), NoneV>>,
    <<Str(<<74,32,256,32,68>>), NoneV>>,
    <<Str(<<32,74,9,68,32>>), NoneV>>,
    <<Str(<<233,32,68>>), NoneV>>,
    <<N_JD, List(<<C_JD, C_QD>>)>>,
    <<N_JD, List(<<>>)>>,
    <<Str(<<74>>), List(<<C_JD>>)>>,
    <<Str(<<74>>), List(<<C_JD, C_QD>>)>>,
    <<NoneV, NoneV>>,
    <<Str(<<>>), List(<<C_JD>>)>>,
    <<NoneV, List(<<C_JD, C_JEmpty>>)>>,
    <<NoneV, List(<<C_JD, C_QD>>)>>,
    <<NoneV, List(<<C_JEmpty>>)>>,
    <<NoneV, List(<<C_JOnly>>)>>,
    <<NoneV, List(<<C_NonLatin>>)>>,
    <<NoneV, List(<<>>)>> }

L(state) == Dict([state |-> state])

L_ca == L(Str(<<99,97>>))

L_tx == L(Str(<<116,120>>))

\* <<person['location'], person['locations']>>, None standing for an absent
\* member.  States: 'ca', 'CA', 'tx', 'TX', 'ZZ', 'ca;', U+017F + 'c',
\* U+FB02 (upper case 'FL'), 'n' + U+0101, ''.
LocationInputs ==
  { <<NoneV, NoneV>>,
    <<NoneV, List(<<L_ca>>)>>,
    <<EmptyDict, NoneV>>,
    <<L(NoneV), List(<<L_ca>>)>>,
    <<L(Str(<<>>)), List(<<L_ca, L(Str(<<67,65>>))>>)>>,
    <<EmptyDict, List(<<L_ca, L_tx>>)>>,
    <<EmptyDict, List(<<L(Str(<<>>)), L_tx>>)>>,
    <<EmptyDict, List(<<EmptyDict>>)>>,
    <<EmptyDict, List(<<L(Str(<<90,90>>))>>)>>,
    <<EmptyDict, List(<<>>)>>,
    <<L_ca, NoneV>>,
    <<L(Str(<<84,88>>)), List(<<L_ca>>)>>,
    <<L(Str(<<90,90>>)), NoneV>>,
    <<L(Str(<<99,97,59>>)), NoneV>>,
    <<L(Str(<<383,99>>)), NoneV>>,
    <<L(Str(<<64258>>)), NoneV>>,
    <<EmptyDict, List(<<L(Str(<<64258>>))>>)>>,
    <<L(Str(<<110,257>>)), NoneV>> }

\* a resolvable and an unresolvable pair of each kind
CoreNameInputs == { <<N_JD, NoneV>>, <<NoneV, List(<<C_JD, C_QD>>)>> }

CoreLocationInputs == { <<L_ca, NoneV>>, <<L(Str(<<90,90>>)), NoneV>> }

\* the persons of a page: every name pair with the core locations and every
\* location pair with the core names
PersonInputs(id) ==
  { [id |-> id, name |-> x[1][1], names |-> x[1][2],
     location |-> x[2][1], locations |-> x[2][2]] :
      x \in (NameInputs \X CoreLocationInputs)
               \cup (CoreNameInputs \X LocationInputs) }

S_male == Str(<<109,97,108,101>>)

\* the rows a lookup can fetch: age NULL, 0, 45 and a value beyond the
\* plausible bound; gender 'male' with income 5, or gender NULL with income 0
RowInputs ==
  { [_id |-> IntV(7), name |-> N_JD, gender |-> gi[1], age |-> a,
     city |-> Str(<<88>>), state |-> Str(<<67,65>>), findincome |-> gi[2]] :
      gi \in {<<S_male, IntV(5)>>, <<NoneV, IntV(0)>>},
      a \in {NoneV, IntV(0), IntV(45), IntV(PlausibleAge + 10)} }

\* data['meta']['link'] and data['meta']['next']: null or a URL
EmptyLinks == {NoneV}

Links == EmptyLinks \cup {Str(<<117>>)}

(***************************************************************************)
(* State.                                                                  *)
(***************************************************************************)
VARIABLES
  pc,            \* the position of main
  exc,           \* the uncaught exception that ended main, or NoExc
  url,           \* main's url
  data,          \* main's data: the page fetched last (size and next link)
  idx,           \* the number of persons of the page the for loop has taken
  fetched,       \* the sizes of the pages fetched with status 200, in order
  person,        \* main's person
  persons_file,  \* the ids of the lines write_json appended to 'persons'
  firstname,     \* match's firstname
  lastname,      \* match's lastname
  state,         \* match's state
  query,         \* the query match handed to c.execute, or None
  executed,      \* "no", "ok" or "error": how c.execute ended
  num_results,   \* match's num_results
  row,           \* the row c.fetchone() returned, or None
  resp,          \* main's resp
  body,          \* the body of the PATCH request sent last, or None
  sent,          \* the person ids of the PATCH requests sent, in order
  conn_open      \* the database connection is open

vars ==
  <<pc, exc, url, data, idx, fetched, person, persons_file, firstname,
    lastname, state, query, executed, num_results, row, resp, body, sent,
    conn_open>>

mainVars == <<url, data, idx, fetched>>

matchVars == <<firstname, lastname, state, query, executed, num_results, row>>

Init ==
  /\ pc = "start"
  /\ exc = NoExc
  /\ url = NoneV
  /\ data = [n |-> 0, next |-> NoneV]
  /\ idx = 0
  /\ fetched = <<>>
  /\ person = NoneV
  /\ persons_file = <<>>
  /\ firstname = NoneV
  /\ lastname = NoneV
  /\ state = NoneV
  /\ query = NoneV
  /\ executed = "no"
  /\ num_results = NoneV
  /\ row = NoneV
  /\ resp = NoneV
  /\ body = NoneV
  /\ sent = <<>>
  /\ conn_open = TRUE

(***************************************************************************)
(* main, lines 229-256.                                                    *)
(***************************************************************************)
\* lines 231-236: the first request, whose 'link' is the first page
InitialGet ==
  /\ pc = "start"
  /\ \E link \in Links : url' = link
  /\ pc' = "while"
  /\ UNCHANGED <<exc, data, idx, fetched, person, persons_file, matchVars,
                 resp, body, sent, conn_open>>

\* line 238
WhileTest ==
  /\ pc = "while"
  /\ pc' = IF Truthy(url) THEN "get" ELSE "epilogue"
  /\ UNCHANGED <<exc, mainVars, person, persons_file, matchVars, resp, body,
                 sent, conn_open>>

\* lines 239-245: a status other than 200 breaks out of the loop
FetchPage ==
  /\ pc = "get"
  /\ \E code \in {200, 500} :
       IF code # 200
       THEN /\ pc' = "epilogue"
            /\ UNCHANGED <<data, idx, fetched>>
       ELSE /\ Len(fetched) < MaxPages
            /\ \E n \in 0..MaxPerPage :
               \E next \in (IF Len(fetched) + 1 < MaxPages THEN Links ELSE EmptyLinks) :
                 /\ data' = [n |-> n, next |-> next]
                 /\ fetched' = Append(fetched, n)
            /\ idx' = 0
            /\ pc' = "for"
  /\ UNCHANGED <<exc, url, person, persons_file, matchVars, resp, body, sent,
                 conn_open>>

\* lines 247-249: the next person of the page, write_json, the call of match
ForNext ==
  /\ pc = "for"
  /\ idx < data.n
  /\ \E p \in PersonInputs(IntV(10 * Len(fetched) + idx + 1)) : person' = p
  /\ persons_file' = Append(persons_file, person'.id)
  /\ idx' = idx + 1
  /\ firstname' = NoneV
  /\ lastname' = NoneV
  /\ state' = NoneV
  /\ query' = NoneV
  /\ executed' = "no"
  /\ num_results' = NoneV
  /\ row' = NoneV
  /\ pc' = "parse_names"
  /\ UNCHANGED <<exc, url, data, fetched, resp, body, sent, conn_open>>

\* line 252, after the last person of the page
PageDone ==
  /\ pc = "for"
  /\ idx >= data.n
  /\ url' = data.next
  /\ pc' = "while"
  /\ UNCHANGED <<exc, data, idx, fetched, person, persons_file, matchVars,
                 resp, body, sent, conn_open>>

(***************************************************************************)
(* match, lines 124-175, in three steps.                                   *)
(***************************************************************************)
\* line 133
CallParseNames ==
  /\ pc = "parse_names"
  /\ LET r == ParseNames(person)
     IN IF r.exc # NoExc
        THEN /\ pc' = "crashed"
             /\ exc' = r.exc
             /\ UNCHANGED <<firstname, lastname>>
        ELSE /\ pc' = "parse_locations"
             /\ firstname' = r.firstname
             /\ lastname' = r.lastname
             /\ UNCHANGED exc
  /\ UNCHANGED <<mainVars, person, persons_file, state, query, executed,
                 num_results, row, resp, body, sent, conn_open>>

\* line 134
CallParseLocations ==
  /\ pc = "parse_locations"
  /\ LET r == ParseLocations(person)
     IN IF r.exc # NoExc
        THEN /\ pc' = "crashed"
             /\ exc' = r.exc
             /\ UNCHANGED state
        ELSE /\ pc' = "lookup"
             /\ state' = r.state
             /\ UNCHANGED exc
  /\ UNCHANGED <<mainVars, person, persons_file, firstname, lastname, query,
                 executed, num_results, row, resp, body, sent, conn_open>>

\* lines 136-175: the early return, the query, its outcome as a result;
\* line 160 rebinds state to None, line 167 to the state of the row
Lookup ==
  /\ pc = "lookup"
  /\ IF ~(Truthy(firstname) /\ Truthy(lastname) /\ Truthy(state))
     THEN /\ resp' = FailedResult
          /\ UNCHANGED <<state, query, executed, num_results, row>>
     ELSE /\ query' = QueryFor(firstname, lastname, state)
          /\ \E ok \in BOOLEAN :
               IF ~ok
               THEN /\ executed' = "error"
                    /\ resp' = FailedResult
                    /\ UNCHANGED <<state, num_results, row>>
               ELSE /\ executed' = "ok"
                    /\ \E n \in 0..MaxRows :
                         /\ num_results' = IntV(n)
                         /\ IF StatusOf(n) = S_found
                            THEN \E r \in RowInputs :
                                   /\ row' = r
                                   /\ state' = r.state
                                   /\ resp' = ResultOf(n, r)
                            ELSE /\ resp' = ResultOf(n, NoneV)
                                 /\ state' = NoneV
                                 /\ UNCHANGED row
  /\ pc' = "patch"
  /\ UNCHANGED <<exc, mainVars, person, persons_file, firstname, lastname,
                 body, sent, conn_open>>

(***************************************************************************)
(* patch, lines 178-220, called at line 250.                               *)
(***************************************************************************)
Patch ==
  /\ pc = "patch"
  /\ IF ~ValidStatus(resp.status)
     THEN /\ pc' = "crashed"
          /\ exc' = Raise("ValueError", 194, "patch")
          /\ UNCHANGED <<body, sent>>
     ELSE /\ body' = PatchBody(resp)
          /\ sent' = Append(sent, person.id)
          /\ pc' = "for"
          /\ UNCHANGED exc
  /\ UNCHANGED <<mainVars, person, persons_file, matchVars, resp, conn_open>>

(***************************************************************************)
(* The end of main, lines 254-256.                                         *)
(***************************************************************************)
\* the names main can read at line 254: its locals and the module's globals
NamesInScope_WithStart ==
  {"url", "params", "r", "data", "person", "resp", "start",
   "codecs", "json", "pymysql", "requests", "f", "p", "conn", "c", "headers",
   "states", "remove_missing", "parse_names", "parse_locations", "match",
   "patch", "write_json", "main"}

NamesInScope ==
  {"url", "params", "r", "data", "person", "resp",
   "codecs", "json", "pymysql", "requests", "f", "p", "conn", "c", "headers",
   "states", "remove_missing", "parse_names", "parse_locations", "match",
   "patch", "write_json", "main"}

\* line 254 reads `start`; line 256 is reached only if that name exists
Epilogue ==
  /\ pc = "epilogue"
  /\ IF "start" \in NamesInScope
     THEN /\ conn_open' = FALSE
          /\ pc' = "done"
          /\ UNCHANGED exc
     ELSE /\ pc' = "crashed"
          /\ exc' = Raise("NameError", 254, "main")
          /\ UNCHANGED conn_open
  /\ UNCHANGED <<mainVars, person, persons_file, matchVars, resp, body, sent>>

Next ==
  \/ InitialGet
  \/ WhileTest
  \/ FetchPage
  \/ ForNext
  \/ PageDone
  \/ CallParseNames
  \/ CallParseLocations
  \/ Lookup
  \/ Patch
  \/ Epilogue

Spec == Init /\ [][Next]_vars

(***************************************************************************)
(* patch as a function of its argument: every 8-tuple of a status and      *)
(* seven fields, each field absent (None, '' or 0) or present.             *)
(***************************************************************************)
S_unknown == Str(<<117,110,107,110,111,119,110>>)

S_FOUND == Str(<<70,79,85,78,68>>)

StatusInputs ==
  {S_found, S_ambiguous, S_missing, S_failed, S_unknown, S_FOUND, Str(<<>>), NoneV}

DataInputs ==
  { [status |-> st, _id |-> i, name |-> n, gender |-> g, age |-> a,
     city |-> c, state |-> s, findincome |-> f] :
      st \in StatusInputs,
      i \in {NoneV, IntV(0), IntV(7)},
      n \in {NoneV, Str(<<>>), N_JD},
      g \in {NoneV, S_male},
      a \in {NoneV, IntV(0), IntV(45)},
      c \in {NoneV, Str(<<>>), Str(<<88>>)},
      s \in {NoneV, Str(<<67,65>>)},
      f \in {NoneV, IntV(0), IntV(5)} }

InitPatch ==
  /\ pc = "patch"
  /\ exc = NoExc
  /\ url = Str(<<117>>)
  /\ data = [n |-> 1, next |-> NoneV]
  /\ idx = 1
  /\ fetched = <<1>>
  /\ person = [id |-> IntV(11), name |-> N_JD, names |-> NoneV,
               location |-> L_ca, locations |-> NoneV]
  /\ persons_file = <<IntV(11)>>
  /\ firstname = NoneV
  /\ lastname = NoneV
  /\ state = NoneV
  /\ query = NoneV
  /\ executed = "no"
  /\ num_results = NoneV
  /\ row = NoneV
  /\ resp \in DataInputs
  /\ body = NoneV
  /\ sent = <<>>
  /\ conn_open = TRUE

NextPatch == Patch

SpecPatch == InitPatch /\ [][NextPatch]_vars

(***************************************************************************)
(* Properties.                                                             *)
(***************************************************************************)
Statuses == {S_found, S_ambiguous, S_missing, S_failed}

\* main has stopped
Stopped == pc \in {"done", "crashed"}

\* main has stopped inside the processing of one record
StoppedInRecord ==
  pc = "crashed" /\ exc.func \in {"parse_names", "parse_locations", "patch"}

\* parse_names has been called for the current person and has ended
ParseNamesEnded ==
  \/ pc = "parse_locations"
  \/ pc = "crashed" /\ exc.func = "parse_names"

\* the number of fully populated alternate name candidates: the entries of
\* person['names'] that carry both subfields, each of them non-empty
PopulatedCandidates(p) ==
  IF p.names.t = "list"
  THEN Cardinality({n \in 1..Len(p.names.v) :
                      /\ DOMAIN p.names.v[n].v = {"personal", "family"}
                      /\ p.names.v[n].v["personal"] \notin {NoneV, Str(<<>>)}
                      /\ p.names.v[n].v["family"] \notin {NoneV, Str(<<>>)}})
  ELSE 0

\* the primary name is absent, empty or has fewer than two tokens: the
\* "missing or malformed" pair of the docstring of parse_names
PrimaryNameUnusable(p) ==
  \/ p.name \in {NoneV, Str(<<>>)}
  \/ Len(Split(p.name.v)) < 2

\* a payload holds, at some depth, a null, an empty string or an empty object
RECURSIVE HasEmptyValue(_)
HasEmptyValue(d) ==
  \E k \in DOMAIN d :
    \/ d[k] \in {NoneV, Str(<<>>), EmptyDict}
    \/ d[k].t = "dict" /\ HasEmptyValue(d[k].v)

\* the ids of the persons of the pages fetched, in page order
RECURSIVE AllIds(_, _)
AllIds(sizes, k) ==
  IF k > Len(sizes) THEN <<>>
  ELSE [i \in 1..sizes[k] |-> IntV(10 * k + i)] \o AllIds(sizes, k + 1)

\* C1: the body patch sends holds, at every depth, no null, no empty string
\* and no empty object, whatever the status and the fields of the result.
C1_NoEmptyValueInBody ==
  body # NoneV => ~HasEmptyValue(body.v)

\* C2: once the lookup of match has run, the status is 'failed' if it raised,
\* 'missing' for 0 rows, 'found' for 1 row and 'ambiguous' for more; the
\* fields of the result are those of the row if the status is 'found' and are
\* all absent otherwise.
C2_StatusFromCardinality ==
  executed # "no" =>
    /\ executed = "error" => resp.status = S_failed
    /\ executed = "ok" /\ num_results = IntV(0) => resp.status = S_missing
    /\ executed = "ok" /\ num_results = IntV(1) => resp.status = S_found
    /\ executed = "ok" /\ num_results.v > 1 => resp.status = S_ambiguous
    /\ resp.status = S_found =>
         /\ row # NoneV
         /\ resp._id = row._id /\ resp.name = row.name
         /\ resp.gender = row.gender /\ resp.city = row.city
         /\ resp.state = row.state
         /\ resp.age = (IF row.age \in {NoneV, IntV(0)} THEN NoneV ELSE row.age)
         /\ resp.findincome =
              (IF row.findincome \in {NoneV, IntV(0)} THEN NoneV ELSE row.findincome)
    /\ resp.status # S_found =>
         /\ resp._id = NoneV /\ resp.name = NoneV /\ resp.gender = NoneV
         /\ resp.age = NoneV /\ resp.city = NoneV /\ resp.state = NoneV
         /\ resp.findincome = NoneV

C2_FoundOneRow ==
  /\ pc = "patch"
  /\ executed = "ok"
  /\ num_results = IntV(1)
  /\ resp.status = S_found
  /\ resp._id = IntV(7)
  /\ resp.age = IntV(45)

\* C3: match never raises; when the names or the state are unresolved it
\* returns 'failed' with every field absent and issues no lookup.
C3_MatchNeverRaises ==
  /\ ~(pc = "crashed" /\ exc.func \in {"parse_names", "parse_locations"})
  /\ pc = "patch" /\ executed = "no" => resp = FailedResult /\ query = NoneV

\* C4: a run of main stops only after it left the page loop, and then every
\* person of every page fetched has been reported once, in page order.
C4_BatchNeverInterrupted ==
  Stopped => ~StoppedInRecord /\ sent = AllIds(fetched, 1)

\* C5, for the records whose primary name cannot be used: whenever the
\* alternate name candidates hold zero or at least two fully populated
\* entries, parse_names returns (None, None).
C5_AlternatesDecide ==
  /\ ParseNamesEnded
  /\ PrimaryNameUnusable(person)
  /\ PopulatedCandidates(person) # 1
  => pc = "parse_locations" /\ firstname = NoneV /\ lastname = NoneV

\* C6: parse_locations returns None or one of the 51 codes of `states`, and
\* every query match issues reads the table <lower-cased code>_indiv_raw of
\* one of these codes.
C6_StateInJurisdictionSet ==
  /\ Cardinality(states) = 51
  /\ pc = "lookup" =>
       \/ state = NoneV
       \/ state.t = "str" /\ state.v \in states
  /\ query # NoneV =>
       \E s \in states :
         query.table = <<LowerChar(s[1]), LowerChar(s[2]),
                         95, 105, 110, 100, 105, 118, 95, 114, 97, 119>>

C6_LowerCaseStateQueried ==
  /\ pc = "patch"
  /\ person.location = L_ca
  /\ query # NoneV
  /\ query.table = <<99, 97, 95, 105, 110, 100, 105, 118, 95, 114, 97, 119>>

\* C7: for a status outside the four, patch raises ValueError and sends
\* nothing; no body sent carries a status outside the four.
C7_InvalidStatusRejected ==
  /\ pc # "patch" /\ resp.status \notin Statuses =>
       /\ pc = "crashed"
       /\ exc.type = "ValueError"
       /\ body = NoneV
       /\ sent = <<>>
  /\ body # NoneV => Get(body.v["person"], "status") \in Statuses

C7_UnknownStatusRaised ==
  /\ pc = "crashed"
  /\ resp.status = S_unknown
  /\ exc = Raise("ValueError", 194, "patch")
  /\ sent = <<>>

\* C8: when match found one row whose age is beyond the plausible bound, the
\* result carries no age.
C8_ImplausibleAgeDiscarded ==
  /\ executed = "ok"
  /\ resp.status = S_found
  /\ row.age.t = "int"
  /\ row.age.v > PlausibleAge
  => resp.age = NoneV

\* C9 as stated: for a primary name of two or more tokens parse_names returns
\* the first and the last token.
C9_TokensReturned ==
  /\ pc = "parse_locations"
  /\ Truthy(person.name)
  /\ Len(Split(person.name.v)) >= 2
  => /\ firstname = Bytes(Split(person.name.v)[1])
     /\ lastname = Bytes(Split(person.name.v)[Len(Split(person.name.v))])

\* C9 as amended: for a primary name of two or more tokens parse_names
\* returns the first and the last token, encoded in Latin-1, if both can be
\* encoded, and (None, None) otherwise.
C9_Latin1TokensReturned ==
  /\ ParseNamesEnded
  /\ Truthy(person.name)
  /\ Len(Split(person.name.v)) >= 2
  => LET toks == Split(person.name.v)
         first == toks[1]
         last == toks[Len(toks)]
     IN /\ pc = "parse_locations"
        /\ IF \A ch \in {first[i] : i \in 1..Len(first)}
                    \cup {last[i] : i \in 1..Len(last)} : ch <= 255
           THEN firstname = Bytes(first) /\ lastname = Bytes(last)
           ELSE firstname = NoneV /\ lastname = NoneV

C9_MiddleTokenDiscarded ==
  /\ pc = "parse_locations"
  /\ person.name = Str(<<74,32,81,32,68>>)
  /\ firstname = Bytes(<<74>>)
  /\ lastname = Bytes(<<68>>)

\* C10: a run of main that left its page loop ends normally with the
\* database connection closed, and the connection is closed only then.
C10_ConnectionClosedAtEnd ==
  /\ Stopped /\ ~StoppedInRecord => pc = "done" /\ ~conn_open
  /\ ~conn_open => pc = "done"

====
